---- MODULE Spec2Model ----
(***************************************************************************)
(* The three JUCE benchmark programs of juce-benchmarks (simple-sine,      *)
(* medium-graph, complex-graph): the processor classes (prepareToPlay,     *)
(* processBlock) and the runBenchmark driver loop.                         *)
(*                                                                         *)
(* The processors are built from JUCE library objects (dsp::Oscillator,    *)
(* dsp::IIR::Filter, ADSR, dsp::DelayLine, AudioBuffer).  Each library     *)
(* call is modelled, at the line of the source that makes it, by what the  *)
(* library object does on that call.                                       *)
(*                                                                         *)
(* Numbers.  The envelope level is an IEEE single (float): it is carried   *)
(* as exponent and 24-bit mantissa and added with round-to-nearest-even,   *)
(* because the envelope's timing is decided by that rounding.  Oscillator  *)
(* phase is carried exactly, in units of 2*pi/(steps*sampleRate).  Sample  *)
(* values are carried in fixed point (value * FxOne).                      *)
(***************************************************************************)
EXTENDS Integers, Sequences, FiniteSets, TLC

VARIABLES
    prog,             \* which of the three programs this is
    pc,               \* position of the host: "start", "loop", "done", "crashed", "delay"
    proc,             \* the processor object: its nodes and scratch buffers
    buffer,           \* the caller's AudioBuffer (channel 0), passed to processBlock
    samplesProcessed, \* runBenchmark's counter
    calls,            \* number of processBlock calls made
    lastBlock,        \* what the last processBlock call did (lengths, generator arguments, ...)
    allocs,           \* heap buffers allocated: [prepare |-> n, process |-> n]
    envLog,           \* per envelope: states entered in order, getNextSample count, milestones
    inLog,            \* every sample fed into the delay stage so far, in order
    outLog,           \* every output sample emitted so far, in order (where values are tracked)
    refFilt,          \* two filters fed the mixes of the generated oscillator signals alone
    overruns,         \* number of processBlock calls that ran past a scratch buffer
    junk              \* what an uninitialised float reads as in this run

vars == <<prog, pc, proc, buffer, samplesProcessed, calls, lastBlock, allocs,
          envLog, inLog, outLog, refFilt, overruns, junk>>

----------------------------------------------------------------------------
(* Program constants *)

numSamples == 441000
benchSampleRate == 44100
blockSize == 512

Progs == {"simple", "medium", "complex"}

Min(a, b) == IF a < b THEN a ELSE b
Max(a, b) == IF a > b THEN a ELSE b
Abs(a) == IF a < 0 THEN -a ELSE a

Pow2Table ==
    <<1, 2, 4, 8, 16, 32, 64, 128, 256, 512, 1024, 2048, 4096, 8192, 16384, 32768,
      65536, 131072, 262144, 524288, 1048576, 2097152, 4194304, 8388608,
      16777216, 33554432, 67108864>>
Pow2(n) == Pow2Table[n + 1]

----------------------------------------------------------------------------
(* IEEE single precision, non-negative values: [e, m] is m * 2^(e-23) with  *)
(* 2^23 <= m < 2^24, and m = 0 is zero.                                     *)

M23 == Pow2(23)
M24 == Pow2(24)

FZero == [e |-> 0, m |-> 0]
FOne == [e |-> 0, m |-> M23]

\* round-to-nearest, ties to even, of n + num/den (0 <= num < den)
RoundNE(n, num, den) ==
    IF 2 * num > den THEN n + 1
    ELSE IF 2 * num = den THEN n + (n % 2)
    ELSE n

\* the float nearest to (n + num/den) * 2^(e-23)
RECURSIVE Norm(_, _, _, _)
Norm(e, n, num, den) ==
    IF n = 0 /\ num = 0 THEN FZero
    ELSE IF n >= M24 THEN Norm(e + 1, n \div 2, (n % 2) * den + num, 2 * den)
    ELSE IF n >= M23 THEN
        LET r == RoundNE(n, num, den)
        IN  IF r = M24 THEN [e |-> e + 1, m |-> M23] ELSE [e |-> e, m |-> r]
    ELSE Norm(e - 1, 2 * n + ((2 * num) \div den), (2 * num) % den, den)

FLeq(a, b) ==
    \/ a.m = 0
    \/ b.m # 0 /\ (a.e < b.e \/ (a.e = b.e /\ a.m <= b.m))

\* float a + b
FAdd(a, b) ==
    IF a.m = 0 THEN b
    ELSE IF b.m = 0 THEN a
    ELSE LET hi == IF FLeq(b, a) THEN a ELSE b
             lo == IF FLeq(b, a) THEN b ELSE a
             s == hi.e - lo.e
         IN  IF s > 25 THEN hi
             ELSE Norm(hi.e, hi.m + (lo.m \div Pow2(s)), lo.m % Pow2(s), Pow2(s))

\* float a - b, for a >= b
FSub(a, b) ==
    IF b.m = 0 THEN a
    ELSE LET s == a.e - b.e
             q == b.m \div Pow2(s)
             r == b.m % Pow2(s)
         IN  IF s > 25 THEN a
             ELSE IF r = 0 THEN Norm(a.e, a.m - q, 0, 1)
             ELSE Norm(a.e, a.m - q - 1, Pow2(s) - r, Pow2(s))

----------------------------------------------------------------------------
(* juce::ADSR *)

\* (float) (distance / (timeInSeconds * sr)) for the parameter values the
\* programs set, at the sample rate the ADSR holds when setParameters runs
RateTable ==
    [attack10 |-> [e |-> -9, m |-> 9739155],     \* 1.0f / (0.01f * 44100.0)
     decay100 |-> [e |-> -14, m |-> 9349589],    \* (1.0f - 0.7f) / (0.1f * 44100.0)
     release200 |-> [e |-> -14, m |-> 10907853], \* 0.7f / (0.2f * 44100.0)
     attack20 |-> [e |-> -10, m |-> 9739155],    \* 1.0f / (0.02f * 44100.0)
     decay150 |-> [e |-> -15, m |-> 16621489],   \* (1.0f - 0.6f) / (0.15f * 44100.0)
     release300 |-> [e |-> -15, m |-> 12466118]] \* 0.6f / (0.3f * 44100.0)

\* 0.7f and 0.6f
Sustain70 == [e |-> -1, m |-> 11744051]
Sustain60 == [e |-> -1, m |-> 10066330]

env1Params == [attack |-> "attack10", decay |-> "decay100", sustain |-> Sustain70,
               release |-> "release200"]
env2Params == [attack |-> "attack20", decay |-> "decay150", sustain |-> Sustain60,
               release |-> "release300"]

\* a default-constructed juce::ADSR: idle, level 0, sampleRate 44100.0
ADSRNew ==
    [state |-> "idle", envelopeVal |-> FZero, sampleRate |-> 44100,
     sustain |-> FOne, attackRate |-> FZero, decayRate |-> FZero,
     releaseRate |-> FZero, hasRelease |-> TRUE]

\* getRate in ADSR::recalculateRates: the rates are computed from the sample
\* rate the object holds at that moment.  A rate of zero mantissa stands for
\* "not positive" (noteOn then skips the phase).
GetRate(key, sr) == IF sr = 44100 THEN RateTable[key] ELSE FZero

\* envelope.setParameters(params)
SetParameters(a, params) ==
    [a EXCEPT !.sustain = params.sustain,
              !.attackRate = GetRate(params.attack, a.sampleRate),
              !.decayRate = GetRate(params.decay, a.sampleRate),
              !.releaseRate = GetRate(params.release, a.sampleRate)]

\* envelope.setSampleRate(sampleRate): stores the rate, recalculates nothing
SetSampleRate(a, sr) == [a EXCEPT !.sampleRate = sr]

\* envelope.noteOn()
NoteOn(a) ==
    IF a.attackRate.m > 0 THEN [a EXCEPT !.state = "attack"]
    ELSE IF a.decayRate.m > 0 THEN [a EXCEPT !.state = "decay", !.envelopeVal = FOne]
    ELSE [a EXCEPT !.state = "sustain", !.envelopeVal = a.sustain]

\* envelope.noteOff(): never called by the three programs
NoteOff(a) ==
    IF a.state = "idle" THEN a
    ELSE IF a.hasRelease THEN [a EXCEPT !.state = "release"]
    ELSE [a EXCEPT !.state = "idle", !.envelopeVal = FZero]

GetNextSample_SustainReleases(a) ==
    CASE a.state = "idle" -> a
      [] a.state = "attack" ->
            LET v == FAdd(a.envelopeVal, a.attackRate)
            IN  IF FLeq(FOne, v)
                THEN [a EXCEPT !.envelopeVal = FOne, !.state = "decay"]
                ELSE [a EXCEPT !.envelopeVal = v]
      [] a.state = "decay" ->
            LET v == FSub(a.envelopeVal, a.decayRate)
            IN  IF FLeq(v, a.sustain)
                THEN [a EXCEPT !.envelopeVal = a.sustain, !.state = "sustain"]
                ELSE [a EXCEPT !.envelopeVal = v]
      [] a.state = "sustain" -> [a EXCEPT !.state = "release"]
      [] a.state = "release" ->
            IF FLeq(a.envelopeVal, a.releaseRate)
            THEN [a EXCEPT !.envelopeVal = FZero, !.state = "idle"]
            ELSE [a EXCEPT !.envelopeVal = FSub(a.envelopeVal, a.releaseRate)]

\* envelope.getNextSample(): the object after the call; the value returned
\* is its envelopeVal (0 when idle)
GetNextSample(a) ==
    CASE a.state = "idle" -> a
      [] a.state = "attack" ->
            LET v == FAdd(a.envelopeVal, a.attackRate)
            IN  IF FLeq(FOne, v)
                THEN [a EXCEPT !.envelopeVal = FOne, !.state = "decay"]
                ELSE [a EXCEPT !.envelopeVal = v]
      [] a.state = "decay" ->
            LET v == FSub(a.envelopeVal, a.decayRate)
            IN  IF FLeq(v, a.sustain)
                THEN [a EXCEPT !.envelopeVal = a.sustain, !.state = "sustain"]
                ELSE [a EXCEPT !.envelopeVal = v]
      [] a.state = "sustain" -> [a EXCEPT !.envelopeVal = a.sustain]
      [] a.state = "release" ->
            IF FLeq(a.envelopeVal, a.releaseRate)
            THEN [a EXCEPT !.envelopeVal = FZero, !.state = "idle"]
            ELSE [a EXCEPT !.envelopeVal = FSub(a.envelopeVal, a.releaseRate)]

----------------------------------------------------------------------------
(* juce::dsp::Oscillator<float>.  Frequencies are in units of 1/FreqDen Hz  *)
(* and phases in units of 2*pi / (FreqDen * sampleRate), so that the phase  *)
(* increment 2*pi*frequency/sampleRate of one sample is the frequency.      *)

FreqDen == benchSampleRate \div 20

TwoPi(sr) == FreqDen * sr
Pi(sr) == TwoPi(sr) \div 2

\* a constructed Oscillator: frequency 440 Hz, not smoothing, no ramp buffer
OscNew(shape) ==
    [shape |-> shape, configured |-> FALSE, sampleRate |-> 0, rampSize |-> 0,
     phase |-> 0, current |-> 440 * FreqDen, target |-> 440 * FreqDen,
     step |-> 0, countdown |-> 0, stepsToTarget |-> 0]

\* osc.prepare(spec): stores the rate, resizes the ramp buffer to
\* maximumBlockSize, resets the phase and (for a positive rate) the smoother
\* to floor(0.05 * sampleRate) steps
OscPrepare(o, sr, maxBlock) ==
    LET steps == IF sr > 0 THEN sr \div 20 ELSE o.stepsToTarget
    IN  [o EXCEPT !.configured = TRUE, !.sampleRate = sr, !.rampSize = maxBlock,
                  !.phase = 0, !.stepsToTarget = steps,
                  !.current = IF sr > 0 THEN o.target ELSE o.current,
                  !.countdown = IF sr > 0 THEN 0 ELSE o.countdown]

\* osc.setFrequency(hz): a new target is approached linearly over
\* stepsToTarget samples
OscSetFrequency(o, hz) ==
    LET f == hz * FreqDen
    IN  IF f = o.target THEN o
        ELSE IF o.stepsToTarget <= 0
        THEN [o EXCEPT !.current = f, !.target = f, !.countdown = 0]
        ELSE [o EXCEPT !.target = f, !.countdown = o.stepsToTarget,
                       !.step = (f - o.current) \div o.stepsToTarget]

\* frequency.getNextValue()
GetNextValue(o) ==
    IF o.countdown <= 0 THEN o
    ELSE IF o.countdown - 1 > 0
    THEN [o EXCEPT !.countdown = o.countdown - 1, !.current = o.current + o.step]
    ELSE [o EXCEPT !.countdown = 0, !.current = o.target]

Frequency(o) == IF o.countdown <= 0 THEN o.target ELSE o.current

Advance_NoWrap(phase, increment, twoPi) == phase + increment

\* phase.advance(increment): the phase after the call (the call returns the
\* phase before it)
Advance(phase, increment, twoPi) == (phase + increment) % twoPi

\* one sample of osc.process: the argument handed to the generator is the
\* phase before the advance, minus pi
OscSample(o) ==
    LET o1 == GetNextValue(o)
        f == Frequency(o1)
    IN  [o |-> [o1 EXCEPT !.phase = Advance(o.phase, f, TwoPi(o.sampleRate))],
         arg |-> o.phase - Pi(o.sampleRate)]

\* n samples of osc.process: the oscillator afterwards and the generator's
\* arguments in order
RECURSIVE OscRun(_, _)
OscRun(o, n) ==
    IF n <= 0 THEN [o |-> o, args |-> <<>>]
    ELSE IF n = 1 THEN LET r == OscSample(o) IN [o |-> r.o, args |-> <<r.arg>>]
    ELSE LET a == OscRun(o, n \div 2)
         IN  IF a.o.phase >= 0
             THEN LET b == OscRun(a.o, n - (n \div 2))
                  IN  [o |-> b.o, args |-> a.args \o b.args]
             ELSE a

\* osc.process writes the ramp buffer only while the frequency is smoothing
OscOverrunsRamp(o, n) == o.countdown > 0 /\ n > o.rampSize

----------------------------------------------------------------------------
(* Sample values in fixed point *)

FxOne == 10 * 100
SineGrid == 21 * 50

\* reduce an angle to [-pi, pi)
WrapAngle(x, sr) == ((x + Pi(sr)) % TwoPi(sr)) - Pi(sr)

\* std::sin(x): the parabola through 0, +-1 at +-pi/2 and 0 at +-pi,
\* evaluated on a grid of SineGrid steps per half period; odd, as std::sin
Sine(x, sr) ==
    LET g0 == WrapAngle(x, sr) \div (Pi(sr) \div SineGrid)
        g == Max(-SineGrid, Min(SineGrid, g0))
        mag == (4 * Abs(g) * (SineGrid - Abs(g)) * FxOne) \div (SineGrid * SineGrid)
    IN  IF g < 0 THEN -mag ELSE mag

\* x / pi
Saw(x, sr) == (2 * x) \div (TwoPi(sr) \div FxOne)

Generator(shape, x, sr) == IF shape = "sine" THEN Sine(x, sr) ELSE Saw(x, sr)

\* the generator applied to every argument of a block
Generated(shape, args, sr) == [i \in 1..Len(args) |-> Generator(shape, args[i], sr)]

\* x * 0.3f
Gain03(x) == (3 * x) \div 10


SeqAdd(a, b) == [i \in 1..Len(a) |-> a[i] + b[i]]
SeqGain03(a) == [i \in 1..Len(a) |-> Gain03(a[i])]
Fill(n, v) == [i \in 1..n |-> v]
Take(a, n) == [i \in 1..n |-> a[i]]

\* the first n samples of a replaced by b, the rest kept
Put(a, b, n) == [i \in 1..Len(a) |-> IF i <= n THEN b[i] ELSE a[i]]

\* a buffer of allocated length Len(a) seen as n samples: memory past the
\* allocation reads as junk
View(a, n, j) == [i \in 1..n |-> IF i <= Len(a) THEN a[i] ELSE j]

\* what the buffer holds after its first n samples were processed into b
Store(a, b, n) == IF n >= Len(a) THEN b ELSE Put(a, b, n)

----------------------------------------------------------------------------
(* juce::dsp::IIR::Filter<float>, second order, transposed direct form II.  *)
(* Coefficients b0 b1 b2 a1 a2 (a0 = 1) are scaled by FilterScale, and so   *)
(* is the state.                                                            *)

FilterScale == Pow2(16)

\* Coefficients::makeLowPass(sampleRate, frequency, Q) at 44100 Hz
LowPassTable ==
    [lp1000 |-> <<301, 603, 301, -117796, 53466>>,   \* 1000 Hz, Q 0.7
     lp800 |-> <<191, 382, 191, -116923, 52151>>,    \* 800 Hz, Q 0.5
     lp1200 |-> <<408, 817, 408, -110381, 46478>>]   \* 1200 Hz, Q 0.5

MakeLowPass(sr, key) == IF sr = 44100 THEN LowPassTable[key] ELSE <<0, 0, 0, 0, 0>>

FilterNew == [configured |-> FALSE, c |-> <<0, 0, 0, 0, 0>>, v1 |-> 0, v2 |-> 0]

\* filter.prepare(spec); filter.reset(); *filter.state = *makeLowPass(...)
FilterSetup(f, sr, key) ==
    [configured |-> TRUE, c |-> MakeLowPass(sr, key), v1 |-> 0, v2 |-> 0]

\* one sample through the filter
FilterSample(f, x) ==
    LET out == (f.c[1] * x + f.v1) \div FilterScale
    IN  [f |-> [f EXCEPT !.v1 = f.c[2] * x - f.c[4] * out + f.v2,
                         !.v2 = f.c[3] * x - f.c[5] * out],
         y |-> out]

\* filter.process(context) on samples lo..hi of xs
RECURSIVE FilterRange(_, _, _, _)
FilterRange(f, xs, lo, hi) ==
    IF lo > hi THEN [f |-> f, ys |-> <<>>]
    ELSE IF lo = hi THEN LET r == FilterSample(f, xs[lo]) IN [f |-> r.f, ys |-> <<r.y>>]
    ELSE LET mid == (lo + hi) \div 2
             a == FilterRange(f, xs, lo, mid)
         IN  IF a.f.v1 = a.f.v1
             THEN LET b == FilterRange(a.f, xs, mid + 1, hi)
                  IN  [f |-> b.f, ys |-> a.ys \o b.ys]
             ELSE a

FilterRun(f, xs) == FilterRange(f, xs, 1, Len(xs))

----------------------------------------------------------------------------
(* juce::dsp::DelayLine<float, Linear>.  The buffer is zeroed by reset();   *)
(* it is carried as the slots written since, the others reading 0.          *)

DelayNew ==
    [configured |-> FALSE, totalSize |-> 4, buf |-> <<>>, writePos |-> 0,
     readPos |-> 0, delayInt |-> 0]

DelayReset(d) == [d EXCEPT !.buf = <<>>, !.writePos = 0, !.readPos = 0]

\* delay.setMaximumDelayInSamples(n): totalSize = jmax(4, n + 2), then reset
SetMaximumDelayInSamples(d, n) == DelayReset([d EXCEPT !.totalSize = Max(4, n + 2)])

\* delay.setDelay(x): clamped to 0 .. totalSize - 2
SetDelay(d, x) == [d EXCEPT !.delayInt = Max(0, Min(d.totalSize - 2, x))]

\* static_cast<int>(sampleRate * 0.5f)
HalfRate(sr) == IF sr >= 0 THEN sr \div 2 ELSE -((-sr) \div 2)

\* delay.prepare(spec); delay.reset(); setMaximumDelayInSamples; setDelay
DelaySetup(d, sr) ==
    LET d1 == DelayReset([d EXCEPT !.configured = TRUE])
        d2 == SetMaximumDelayInSamples(d1, HalfRate(sr))
    IN  SetDelay(d2, HalfRate(sr))

DelayRead(d, i) == IF i \in DOMAIN d.buf THEN d.buf[i] ELSE 0

PopSample_OneSlotFurther(d) ==
    [d |-> [d EXCEPT !.readPos = (d.readPos + d.totalSize - 1) % d.totalSize],
     y |-> DelayRead(d, (d.readPos + d.delayInt + 1) % d.totalSize)]

\* delay.popSample(0): the sample delayInt slots after the read position
\* (the fraction of the delay is 0); the read position steps back
PopSample(d) ==
    [d |-> [d EXCEPT !.readPos = (d.readPos + d.totalSize - 1) % d.totalSize],
     y |-> DelayRead(d, (d.readPos + d.delayInt) % d.totalSize)]

\* delay.pushSample(0, x): written at the write position, which steps back
PushSample(d, x) ==
    [d EXCEPT !.buf = [i \in (DOMAIN d.buf) \cup {d.writePos} |->
                          IF i = d.writePos THEN x ELSE d.buf[i]],
              !.writePos = (d.writePos + d.totalSize - 1) % d.totalSize]

DelayStageSample_PushInput(d, input) ==
    LET r == PopSample(d)
        output == input + Gain03(r.y)
    IN  [d |-> PushSample(r.d, input), y |-> output]

\* one iteration of the delay loop of processBlock
DelayStageSample(d, input) ==
    LET r == PopSample(d)
        output == input + Gain03(r.y)
    IN  [d |-> PushSample(r.d, output), y |-> output]

\* the delay loop on samples lo..hi of xs
RECURSIVE DelayRange(_, _, _, _)
DelayRange(d, xs, lo, hi) ==
    IF lo > hi THEN [d |-> d, ys |-> <<>>]
    ELSE IF lo = hi THEN LET r == DelayStageSample(d, xs[lo]) IN [d |-> r.d, ys |-> <<r.y>>]
    ELSE LET mid == (lo + hi) \div 2
             a == DelayRange(d, xs, lo, mid)
         IN  IF a.d.writePos >= 0
             THEN LET b == DelayRange(a.d, xs, mid + 1, hi)
                  IN  [d |-> b.d, ys |-> a.ys \o b.ys]
             ELSE a

DelayRun(d, xs) == DelayRange(d, xs, 1, Len(xs))

----------------------------------------------------------------------------
(* The envelope loop of processBlock, with a log of what the envelope did  *)

EnvScale == Pow2(12)

\* a float level in fixed point (level * EnvScale)
ToFx(v) == IF v.m = 0 THEN 0 ELSE v.m \div Pow2(11 - v.e)

\* sample * envValue
EnvMul(x, level) == (x * level) \div EnvScale

SeqEnvMul(xs, levels) == [i \in 1..Len(xs) |-> EnvMul(xs[i], levels[i])]

\* the log of an envelope that was just triggered
EnvLogNew(a) ==
    [path |-> IF a.state = "idle" THEN <<>> ELSE <<a.state>>, count |-> 0,
     atOne |-> 0, atSustain |-> 0, offLevel |-> 0]

\* one envelope.getNextSample() call
EnvStep(st) ==
    LET a2 == GetNextSample(st.a)
        cnt == st.log.count + 1
        one == IF st.log.atOne = 0 /\ a2.envelopeVal = FOne THEN cnt ELSE st.log.atOne
        sus == IF st.log.atSustain = 0 /\ one # 0 /\ cnt > one
                  /\ a2.envelopeVal = a2.sustain
               THEN cnt ELSE st.log.atSustain
    IN  [a |-> a2,
         log |-> [path |-> IF a2.state # st.a.state
                           THEN Append(st.log.path, a2.state) ELSE st.log.path,
                  count |-> cnt, atOne |-> one, atSustain |-> sus,
                  offLevel |-> IF st.log.atSustain # 0 /\ a2.envelopeVal # a2.sustain
                               THEN st.log.offLevel + 1 ELSE st.log.offLevel],
         levels |-> <<IF a2.state = "idle" THEN 0 ELSE ToFx(a2.envelopeVal)>>]

\* n consecutive getNextSample() calls
RECURSIVE EnvRun(_, _)
EnvRun(st, n) ==
    IF n <= 0 THEN [a |-> st.a, log |-> st.log, levels |-> <<>>]
    ELSE IF n = 1 THEN EnvStep(st)
    ELSE LET a == EnvRun(st, n \div 2)
         IN  IF a.log.count >= 0
             THEN LET b == EnvRun(a, n - (n \div 2))
                  IN  [a |-> b.a, log |-> b.log, levels |-> a.levels \o b.levels]
             ELSE a

----------------------------------------------------------------------------
(* The processor classes *)

Shapes(p) ==
    CASE p = "simple" -> <<"sine">>
      [] p = "medium" -> <<"sine", "saw">>
      [] p = "complex" -> <<"sine", "saw", "sine", "saw", "sine">>

\* the arguments of the setFrequency calls
Frequencies(p) ==
    CASE p = "simple" -> <<440>>
      [] p = "medium" -> <<440, 442>>
      [] p = "complex" -> <<440, 450, 460, 470, 480>>

LowPassKeys(p) ==
    CASE p = "simple" -> <<>>
      [] p = "medium" -> <<"lp1000">>
      [] p = "complex" -> <<"lp800", "lp1200">>

EnvelopeParams(p) ==
    CASE p = "simple" -> <<>>
      [] p = "medium" -> <<env1Params>>
      [] p = "complex" -> <<env1Params, env2Params>>

NumTemps(p) == IF p = "complex" THEN 5 ELSE 0

\* a constructed processor
ProcNew(p) ==
    [prepared |-> FALSE, sampleRate |-> 0, samplesPerBlock |-> 0,
     osc |-> [k \in 1..Len(Shapes(p)) |-> OscNew(Shapes(p)[k])],
     filt |-> [k \in 1..Len(LowPassKeys(p)) |-> FilterNew],
     env |-> [k \in 1..Len(EnvelopeParams(p)) |-> ADSRNew],
     delay |-> [k \in 1..(IF p = "complex" THEN 1 ELSE 0) |-> DelayNew],
     temps |-> [k \in 1..NumTemps(p) |-> <<>>]]

EnvSetup_NoNoteOn(a, params, sr) == SetSampleRate(SetParameters(a, params), sr)

\* envelope.setParameters(params); envelope.setSampleRate(sampleRate);
\* envelope.noteOn(), in the order of the source
EnvSetup(a, params, sr) == NoteOn(SetSampleRate(SetParameters(a, params), sr))

\* prepareToPlay(sampleRate, samplesPerBlock): no argument is checked
PrepareToPlay(p, q, sr, spb, j) ==
    [prepared |-> TRUE, sampleRate |-> sr, samplesPerBlock |-> spb,
     osc |-> [k \in DOMAIN q.osc |->
                 OscSetFrequency(OscPrepare(q.osc[k], sr, spb), Frequencies(p)[k])],
     filt |-> [k \in DOMAIN q.filt |-> FilterSetup(q.filt[k], sr, LowPassKeys(p)[k])],
     env |-> [k \in DOMAIN q.env |-> EnvSetup(q.env[k], EnvelopeParams(p)[k], sr)],
     delay |-> [k \in DOMAIN q.delay |-> DelaySetup(q.delay[k], sr)],
     temps |-> [k \in DOMAIN q.temps |-> Fill(spb, j)]]

\* heap buffers prepareToPlay allocates: a ramp buffer per oscillator, the
\* delay line's buffer, the temp buffers
PrepareAllocs(p) == Len(Shapes(p)) + (IF p = "complex" THEN 1 ELSE 0) + NumTemps(p)


\* heap buffers one processBlock call allocates: medium-graph constructs
\* juce::AudioBuffer<float> sawBuffer(1, numSamples) in every call
ProcessAllocs(p) == IF p = "medium" THEN 1 ELSE 0

----------------------------------------------------------------------------
(* processBlock.  The oscillators and envelopes advance independently of   *)
(* the sample data (Control); the data flows through the buffers, filters  *)
(* and delay line (Values).                                                *)

\* the node state advanced by n samples: per oscillator the generator's
\* arguments, per envelope the levels returned
Control(q, logs, n) ==
    [osc |-> [k \in DOMAIN q.osc |-> OscRun(q.osc[k], n)],
     env |-> [k \in DOMAIN q.env |-> EnvRun([a |-> q.env[k], log |-> logs[k]], n)]]

\* what oscillator k generated in this block
Gen(p, q, ctl, k) == Generated(Shapes(p)[k], ctl.osc[k].args, q.sampleRate)

\* osc.process(context) with a replacing context: the generated samples are
\* added to what the block holds
OscInto(block, gen) == SeqAdd(block, gen)


\* simple-sine: oscillator.process(context)
ValuesSimple(p, q, ctl, data, n, j) ==
    [filt |-> q.filt, delay |-> q.delay, temps |-> q.temps,
     out |-> OscInto(data, Gen(p, q, ctl, 1)), delayIn |-> <<>>]

\* medium-graph: sine into the buffer, saw into a fresh sawBuffer, mix,
\* filter, envelope
ValuesMedium(p, q, ctl, data, n, j) ==
    LET sine == OscInto(data, Gen(p, q, ctl, 1))
        sawBuffer == OscInto(Fill(n, j), Gen(p, q, ctl, 2))
        f == FilterRun(q.filt[1], SeqAdd(sine, sawBuffer))
    IN  [filt |-> <<f.f>>, delay |-> q.delay, temps |-> q.temps,
         out |-> SeqEnvMul(f.ys, ctl.env[1].levels), delayIn |-> <<>>]

\* complex-graph
ValuesComplex(p, q, ctl, data, n, j) ==
    LET b1 == SeqGain03(OscInto(data, Gen(p, q, ctl, 1)))
        t1 == SeqGain03(OscInto(View(q.temps[1], n, j), Gen(p, q, ctl, 2)))
        t2 == SeqGain03(OscInto(View(q.temps[2], n, j), Gen(p, q, ctl, 3)))
        t3 == SeqGain03(OscInto(View(q.temps[3], n, j), Gen(p, q, ctl, 4)))
        t4 == SeqGain03(OscInto(View(q.temps[4], n, j), Gen(p, q, ctl, 5)))
        f1 == FilterRun(q.filt[1], SeqAdd(SeqAdd(b1, t1), t2))
        f2 == FilterRun(q.filt[2], SeqAdd(t3, t4))
        e1 == SeqEnvMul(f1.ys, ctl.env[1].levels)
        e2 == SeqEnvMul(f2.ys, ctl.env[2].levels)
        mixed == SeqAdd(e1, e2)
        d == DelayRun(q.delay[1], mixed)
    IN  [filt |-> <<f1.f, f2.f>>, delay |-> <<d.d>>,
         temps |-> <<Store(q.temps[1], t1, n), Store(q.temps[2], t2, n),
                     Store(q.temps[3], t3, n), Store(q.temps[4], t4, n),
                     Store(q.temps[5], e2, n)>>,
         out |-> d.ys, delayIn |-> mixed]

Values(p, q, ctl, data, n, j) ==
    CASE p = "simple" -> ValuesSimple(p, q, ctl, data, n, j)
      [] p = "medium" -> ValuesMedium(p, q, ctl, data, n, j)
      [] p = "complex" -> ValuesComplex(p, q, ctl, data, n, j)

\* does a block of n samples touch a scratch buffer past its allocation:
\* an oscillator's ramp buffer (written while its frequency is smoothing),
\* or, in complex-graph, a temp buffer
Overruns(p, q, n) ==
    \/ \E k \in DOMAIN q.osc : OscOverrunsRamp(q.osc[k], n)
    \/ \E k \in DOMAIN q.temps : n > Len(q.temps[k])

\* env1 * filter1(0.3 osc1 + 0.3 osc2 + 0.3 osc3) + env2 * filter2(0.3 osc4
\* + 0.3 osc5) for the block, from the generated signals alone, and the two
\* filters it ran afterwards
GraphOfGenerated(p, q, ctl, rf) ==
    IF p # "complex" THEN [rf |-> rf, ys |-> <<>>]
    ELSE LET g(k) == SeqGain03(Gen(p, q, ctl, k))
             f1 == FilterRun(rf[1], SeqAdd(SeqAdd(g(1), g(2)), g(3)))
             f2 == FilterRun(rf[2], SeqAdd(g(4), g(5)))
         IN  [rf |-> <<f1.f, f2.f>>,
              ys |-> SeqAdd(SeqEnvMul(f1.ys, ctl.env[1].levels),
                            SeqEnvMul(f2.ys, ctl.env[2].levels))]

----------------------------------------------------------------------------
(* Bounds of the model *)

MaxLen == 3         \* longest block the host passes (Spec)
MaxSpb == 2         \* largest samplesPerBlock the host prepares with (Spec)
MaxSamples == 5     \* samples the host processes in all (Spec)
MaxSplit == 5400    \* samples the host processes in all (SpecSplit)
MaxDelay == 4       \* longest delay in samples (SpecDelay)
MaxFed == 9         \* samples fed through the delay stage (SpecDelay)

HostRates == {-benchSampleRate, 0, benchSampleRate}
JunkValues == {0, Pow2(15)}
SplitSizes == {168, 441, blockSize}

NoBlock ==
    [n |-> 0, base |-> 0, args |-> <<>>, gen |-> <<>>, delayIn |-> <<>>,
     ofGenerated |-> <<>>, overrun |-> FALSE]

Start(p, j) ==
    /\ prog = p
    /\ junk = j
    /\ pc = "start"
    /\ proc = ProcNew(p)
    /\ buffer = [data |-> <<>>, size |-> 0]
    /\ samplesProcessed = 0
    /\ calls = 0
    /\ lastBlock = NoBlock
    /\ allocs = [prepare |-> 0, process |-> 0]
    /\ envLog = [k \in DOMAIN ProcNew(p).env |-> EnvLogNew(ADSRNew)]
    /\ inLog = <<>>
    /\ outLog = <<>>
    /\ refFilt = [k \in DOMAIN ProcNew(p).filt |-> FilterNew]
    /\ overruns = 0

\* the host constructs the processor, prepares it and constructs its buffer
\* of samplesPerBlock samples, as runBenchmark does
Prepare(sr, spb) ==
    /\ pc = "start"
    /\ proc' = PrepareToPlay(prog, proc, sr, spb, junk)
    /\ buffer' = [data |-> Fill(spb, junk), size |-> spb]
    /\ allocs' = [allocs EXCEPT !.prepare = PrepareAllocs(prog)]
    /\ envLog' = [k \in DOMAIN proc'.env |-> EnvLogNew(proc'.env[k])]
    /\ refFilt' = proc'.filt
    /\ pc' = "loop"
    /\ UNCHANGED <<prog, junk, samplesProcessed, calls, lastBlock, inLog, outLog,
                   overruns>>

\* buffer.setSize(1, n, false, false, true): the memory is kept when it is
\* large enough, and allocated anew (uninitialised) when not
Resized(b, n, j) == IF n <= Len(b.data) THEN b.data ELSE Fill(n, j)

\* processBlock on a buffer of n samples, sample values included
Block(n) ==
    LET data == Resized(buffer, n, junk)
        ctl == Control(proc, envLog, n)
        val == Values(prog, proc, ctl, Take(data, n), n, junk)
        ref == GraphOfGenerated(prog, proc, ctl, refFilt)
    IN  /\ proc' = [proc EXCEPT !.osc = [k \in DOMAIN proc.osc |-> ctl.osc[k].o],
                                !.env = [k \in DOMAIN proc.env |-> ctl.env[k].a],
                                !.filt = val.filt, !.delay = val.delay,
                                !.temps = val.temps]
        /\ envLog' = [k \in DOMAIN proc.env |-> ctl.env[k].log]
        /\ buffer' = [data |-> Store(data, val.out, n), size |-> n]
        /\ outLog' = outLog \o val.out
        /\ inLog' = inLog \o val.delayIn
        /\ refFilt' = ref.rf
        /\ lastBlock' = [n |-> n, base |-> samplesProcessed,
                         args |-> ctl.osc[1].args, gen |-> Gen(prog, proc, ctl, 1),
                         delayIn |-> val.delayIn, ofGenerated |-> ref.ys,
                         overrun |-> Overruns(prog, proc, n)]
        /\ allocs' = [allocs EXCEPT !.process = @ + ProcessAllocs(prog)]
        /\ samplesProcessed' = samplesProcessed + n
        /\ calls' = calls + 1
        /\ overruns' = overruns + (IF Overruns(prog, proc, n) THEN 1 ELSE 0)
        /\ UNCHANGED <<prog, junk>>

\* processBlock on a buffer of n samples, the node state only: sample
\* values (buffers, filters, delay line) are left out
ControlBlock(n) ==
    LET ctl == Control(proc, envLog, n)
    IN  /\ proc' = [proc EXCEPT !.osc = [k \in DOMAIN proc.osc |-> ctl.osc[k].o],
                                !.env = [k \in DOMAIN proc.env |-> ctl.env[k].a]]
        /\ envLog' = [k \in DOMAIN proc.env |-> ctl.env[k].log]
        /\ buffer' = [buffer EXCEPT !.size = n]
        /\ lastBlock' = [n |-> n, base |-> samplesProcessed,
                         args |-> ctl.osc[1].args, gen |-> Gen(prog, proc, ctl, 1),
                         delayIn |-> <<>>, ofGenerated |-> <<>>,
                         overrun |-> Overruns(prog, proc, n)]
        /\ allocs' = [allocs EXCEPT !.process = @ + ProcessAllocs(prog)]
        /\ samplesProcessed' = samplesProcessed + n
        /\ calls' = calls + 1
        /\ overruns' = overruns + (IF Overruns(prog, proc, n) THEN 1 ELSE 0)
        /\ UNCHANGED <<prog, junk, inLog, outLog, refFilt>>

----------------------------------------------------------------------------
(* Spec: a host that prepares the processor with any arguments and passes  *)
(* it blocks of any length, sample values included                         *)

Init == \E p \in Progs, j \in JunkValues : Start(p, j)

HostPrepare == \E sr \in HostRates, spb \in 0..MaxSpb : Prepare(sr, spb)

\* a block that stays inside the scratch buffers
HostBlock ==
    \E n \in 1..MaxLen :
        /\ pc = "loop"
        /\ proc.sampleRate > 0
        /\ samplesProcessed + n <= MaxSamples
        /\ ~Overruns(prog, proc, n)
        /\ Block(n)
        /\ pc' = pc

\* a block that runs past a scratch buffer: nothing in processBlock stops
\* it, and writing past an allocation is undefined: the process may die
\* there, or go on with the memory behind the buffer
HostOverrunRuns ==
    \E n \in 1..MaxLen :
        /\ pc = "loop"
        /\ proc.sampleRate > 0
        /\ samplesProcessed + n <= MaxSamples
        /\ Overruns(prog, proc, n)
        /\ Block(n)
        /\ pc' = pc

HostOverrunCrashes ==
    \E n \in 1..MaxLen :
        /\ pc = "loop"
        /\ proc.sampleRate > 0
        /\ samplesProcessed + n <= MaxSamples
        /\ Overruns(prog, proc, n)
        /\ pc' = "crashed"
        /\ lastBlock' = [NoBlock EXCEPT !.n = n, !.base = samplesProcessed,
                                        !.overrun = TRUE]
        /\ calls' = calls + 1
        /\ overruns' = overruns + 1
        /\ UNCHANGED <<prog, junk, proc, buffer, samplesProcessed, allocs, envLog,
                       inLog, outLog, refFilt>>

Next == HostPrepare \/ HostBlock \/ HostOverrunRuns \/ HostOverrunCrashes

Spec == Init /\ [][Next]_vars

----------------------------------------------------------------------------
(* SpecBench: runBenchmark of each program, at its own constants           *)

SamplesToProcess_WholeBlock(done) == blockSize

\* std::min(blockSize, numSamples - samplesProcessed)
SamplesToProcess(done) == Min(blockSize, numSamples - done)

BenchInit == \E p \in Progs : Start(p, 0)

BenchPrepare == Prepare(benchSampleRate, blockSize)

\* one iteration of the while loop
BenchBlock ==
    /\ pc = "loop"
    /\ samplesProcessed < numSamples
    /\ ControlBlock(SamplesToProcess(samplesProcessed))
    /\ pc' = pc

\* the loop condition fails
BenchDone ==
    /\ pc = "loop"
    /\ ~(samplesProcessed < numSamples)
    /\ pc' = "done"
    /\ UNCHANGED <<prog, junk, proc, buffer, samplesProcessed, calls, lastBlock,
                   allocs, envLog, inLog, outLog, refFilt, overruns>>

BenchNext == BenchPrepare \/ BenchBlock \/ BenchDone

SpecBench == BenchInit /\ [][BenchNext]_vars

----------------------------------------------------------------------------
(* SpecSplit: medium-graph prepared as runBenchmark prepares it, and fed   *)
(* blocks of any of several lengths                                        *)

SplitInit == Start("medium", 0)

SplitBlock ==
    \E n \in SplitSizes :
        /\ pc = "loop"
        /\ samplesProcessed + n <= MaxSplit
        /\ ControlBlock(n)
        /\ pc' = pc

SplitNext == BenchPrepare \/ SplitBlock

SpecSplit == SplitInit /\ [][SplitNext]_vars

----------------------------------------------------------------------------
(* SpecDelay: the delay stage of complex-graph alone, set up for a delay   *)
(* of D samples and fed samples in blocks                                  *)

DelayInputs == {0, FxOne}

\* sample rates the delay stage is set up for: the benchmark's, and rates
\* that give short delays
DelayRates == {2 * D : D \in 1..MaxDelay} \cup {benchSampleRate}

DelayInit ==
    \E sr \in DelayRates :
        /\ prog = "complex"
        /\ junk = 0
        /\ pc = "delay"
        /\ proc = [ProcNew("complex") EXCEPT !.sampleRate = sr,
                                             !.delay = <<DelaySetup(DelayNew, sr)>>]
        /\ buffer = [data |-> <<>>, size |-> 0]
        /\ samplesProcessed = 0
        /\ calls = 0
        /\ lastBlock = NoBlock
        /\ allocs = [prepare |-> 0, process |-> 0]
        /\ envLog = [k \in DOMAIN ProcNew("complex").env |-> EnvLogNew(ADSRNew)]
        /\ inLog = <<>>
        /\ outLog = <<>>
        /\ refFilt = [k \in DOMAIN ProcNew("complex").filt |-> FilterNew]
        /\ overruns = 0

\* the delay loop of processBlock on a block xs
DelayFeed ==
    \E n \in 1..MaxLen : \E xs \in [1..n -> DelayInputs] :
        /\ pc = "delay"
        /\ Len(inLog) + n <= MaxFed
        /\ LET d == DelayRun(proc.delay[1], xs)
           IN  /\ proc' = [proc EXCEPT !.delay = <<d.d>>]
               /\ buffer' = [data |-> d.ys, size |-> n]
               /\ inLog' = inLog \o xs
               /\ outLog' = outLog \o d.ys
               /\ lastBlock' = [NoBlock EXCEPT !.n = n, !.base = samplesProcessed,
                                               !.delayIn = xs]
        /\ samplesProcessed' = samplesProcessed + n
        /\ calls' = calls + 1
        /\ UNCHANGED <<prog, junk, pc, allocs, envLog, refFilt, overruns>>

DelayNext == DelayFeed

SpecDelay == DelayInit /\ [][DelayNext]_vars

----------------------------------------------------------------------------
(* Properties of the benchmark driver                                      *)

\* C1: runBenchmark passes processBlock min(512, samples remaining) samples
\* per call: 861 calls of 512 samples and then one call of 168 samples,
\* never more than the 441000 samples in all, and it leaves the loop after
\* exactly 862 calls with exactly 441000 samples processed.
C1_DriverLoop ==
    /\ samplesProcessed <= numSamples
    /\ calls <= 862
    /\ calls >= 1 => /\ lastBlock.n = (IF calls <= 861 THEN 512 ELSE 168)
                     /\ lastBlock.n = buffer.size
                     /\ lastBlock.base = 512 * (calls - 1)
                     /\ samplesProcessed = lastBlock.base + lastBlock.n
    /\ (pc = "loop" /\ calls = 862) => samplesProcessed = numSamples
    /\ pc = "done" => calls = 862 /\ samplesProcessed = numSamples

C1_LoopLeftAfterShortBlock ==
    pc = "done" /\ calls = 862 /\ lastBlock.n = 168 /\ samplesProcessed = 441000

\* C2: processBlock allocates no heap memory: every buffer it uses was
\* allocated by prepareToPlay.
C2_NoAllocationInProcessBlock == allocs.process = 0

\* the output of one processBlock call on an n-sample buffer by a processor
\* prepared for n-sample blocks
SingleBlock(p, n, j) ==
    LET q == PrepareToPlay(p, ProcNew(p), benchSampleRate, n, j)
        ctl == Control(q, [k \in DOMAIN q.env |-> EnvLogNew(q.env[k])], n)
    IN  Values(p, q, ctl, Fill(n, j), n, j).out

\* C3: the samples written over a run of processBlock calls are the samples
\* one call on the whole run would write: how the host splits the stream
\* into blocks changes nothing.
C3_SplitIndependent ==
    (pc = "loop" /\ calls >= 1 /\ overruns = 0 /\ proc.sampleRate = benchSampleRate)
        => outLog = SingleBlock(prog, samplesProcessed, junk)

\* C4: prepareToPlay with a sample rate or a block size that is not positive
\* fails before any node is configured and before any scratch buffer is
\* sized.
C4_PrepareRejectsInvalid ==
    (pc # "start" /\ (proc.sampleRate <= 0 \/ proc.samplesPerBlock <= 0))
        => /\ ~proc.prepared
           /\ \A k \in DOMAIN proc.osc : ~proc.osc[k].configured
           /\ \A k \in DOMAIN proc.temps : proc.temps[k] = <<>>

\* C5: processBlock on a buffer of more samples than the prepared maximum is
\* rejected: no sample is processed and nothing is read or written past a
\* scratch buffer.
C5_OversizeBlockRejected ==
    (calls >= 1 /\ lastBlock.n > proc.samplesPerBlock)
        => /\ ~lastBlock.overrun
           /\ samplesProcessed = lastBlock.base

----------------------------------------------------------------------------
(* Properties of the envelopes                                             *)

EnvOrder == <<"attack", "decay", "sustain">>

\* C6: an envelope is triggered by noteOn once, in prepareToPlay, and gets no
\* noteOff: it passes through attack, decay and sustain in that order, each
\* at most once, is never in release or idle while blocks are processed, and
\* once in sustain stays there with its level equal to the sustain level.
C6_EnvelopeOrder ==
    pc \in {"loop", "done"} =>
        \A k \in DOMAIN envLog :
            LET a == proc.env[k]
                log == envLog[k]
            IN  /\ Len(log.path) \in 1..3
                /\ log.path = SubSeq(EnvOrder, 1, Len(log.path))
                /\ a.state = log.path[Len(log.path)]
                /\ a.state \notin {"release", "idle"}
                /\ log.count = samplesProcessed
                /\ a.state = "sustain" => a.envelopeVal = a.sustain
                /\ log.offLevel = 0
                /\ pc = "done" => a.state = "sustain"

C6_BothEnvelopesSustain ==
    /\ prog = "complex"
    /\ pc = "done"
    /\ \A k \in {1, 2} : envLog[k].path = EnvOrder /\ proc.env[k].state = "sustain"

\* the envelopes set up with attack 0.01 s, decay 0.1 s, sustain 0.7
FirstEnvelope == {k \in DOMAIN envLog : EnvelopeParams(prog)[k] = env1Params}

----------------------------------------------------------------------------
(* Properties of the delay stage                                           *)

\* a unit impulse followed by silence
IsImpulse(xs) == Len(xs) >= 1 /\ xs[1] = FxOne /\ \A i \in 2..Len(xs) : xs[i] = 0

\* the amplitude of the k-th echo of a unit impulse: the feedback gain 0.3
\* applied k times
RECURSIVE Echo(_)
Echo(k) == IF k = 0 THEN FxOne ELSE Gain03(Echo(k - 1))

\* C8: fed a unit impulse and then silence, the delay stage with a delay of D
\* samples puts out the impulse at sample 0 and an echo at every sample k*D,
\* the k-th echo having the amplitude 0.3^k, and zero at every other sample.
C8_ImpulseEchoes ==
    (pc = "delay" /\ IsImpulse(inLog)) =>
        LET D == proc.delay[1].delayInt
        IN  /\ D = HalfRate(proc.sampleRate)
            /\ Len(outLog) = Len(inLog)
            /\ \A i \in 1..Len(outLog) :
                   outLog[i] = (IF (i - 1) % D = 0 THEN Echo((i - 1) \div D) ELSE 0)

C8_SecondEchoHeard ==
    /\ pc = "delay"
    /\ IsImpulse(inLog)
    /\ proc.delay[1].delayInt >= 2
    /\ Len(outLog) > 2 * proc.delay[1].delayInt
    /\ outLog[proc.delay[1].delayInt + 1] = Gain03(FxOne)
    /\ outLog[2 * proc.delay[1].delayInt + 1] = Gain03(Gain03(FxOne))
    /\ outLog[2 * proc.delay[1].delayInt] = 0

\* C11: per sample the delay stage reads the delayed sample before it
\* writes, puts out input + 0.3 * delayed and writes that output (not the
\* input) into the delay line: with the delay D (22050 at 44100 Hz) and n
\* counted across all blocks, out[n] = in[n] for n < D and
\* out[n] = in[n] + 0.3 * out[n - D] for n >= D, whether or not D is a
\* multiple of the block length.
C11_DelayRecurrence ==
    pc = "delay" =>
        LET d == proc.delay[1]
            D == d.delayInt
        IN  /\ D = HalfRate(proc.sampleRate)
            /\ proc.sampleRate = benchSampleRate => D = 22050
            /\ Len(outLog) = Len(inLog)
            /\ \A n \in 0..(Len(outLog) - 1) :
                   outLog[n + 1] = inLog[n + 1]
                       + (IF n >= D THEN Gain03(outLog[n + 1 - D]) ELSE 0)
            /\ Len(outLog) >= 1 =>
                   DelayRead(d, (d.writePos + 1) % d.totalSize) = outLog[Len(outLog)]

C11_FeedbackAcrossBlocks ==
    /\ pc = "delay"
    /\ calls >= 2
    /\ proc.delay[1].delayInt % lastBlock.n # 0
    /\ \E n \in lastBlock.base..(Len(outLog) - 1) :
           /\ n >= proc.delay[1].delayInt
           /\ n - proc.delay[1].delayInt < lastBlock.base
           /\ inLog[n + 1] = FxOne
           /\ outLog[n + 1 - proc.delay[1].delayInt] > FxOne
           /\ outLog[n + 1] = FxOne + Gain03(outLog[n + 1 - proc.delay[1].delayInt])

\* C9: in complex-graph the delay stage is fed
\*   gain03(env2 * filter2(filter1(osc1 + osc2) + osc5) + env1 * (osc3 + osc4))
\* of the five oscillators' generated signals, and of nothing else.
C9_DelayInputOfOscillators ==
    (prog = "complex" /\ pc = "loop" /\ calls >= 1 /\ overruns = 0)
        => lastBlock.delayIn = lastBlock.ofGenerated

----------------------------------------------------------------------------
(* Properties of the oscillator of simple-sine                             *)

\* the phase of the 440 Hz oscillator at global sample index k, in the
\* model's angle unit: 2*pi*440*k/44100 modulo 2*pi
PhaseAt(k, sr) == ((440 * k) % sr) * FreqDen

----------------------------------------------------------------------------
(* Dependence on what the buffers held before a call                       *)

\* C12: the output of a processBlock call depends on the node state and the
\* block length only, never on what the caller's buffer and the scratch
\* buffers held before the call: the first call after prepareToPlay writes
\* the same samples whatever the memory of those buffers held.
C12_NoStaleDependence ==
    (pc = "loop" /\ calls = 1 /\ overruns = 0 /\ proc.sampleRate = benchSampleRate)
        => \A j \in JunkValues : outLog = SingleBlock(prog, samplesProcessed, j)

====
